---- MODULE Spec2Model ----
(***************************************************************************)
(* Fan-out / fan-in orchestration of the analyst agents of ai-investor.    *)
(*                                                                         *)
(* The workflow of src/src/__main__.py is a llama_index Workflow with      *)
(* three steps (start, run_agent, combine_results) and the implicit _done  *)
(* step that consumes the StopEvent.  One run of the workflow owns one     *)
(* Context (its key/value store and its collect_events buffer) and one     *)
(* queue per step.  All step bodies run on one asyncio event loop, so an   *)
(* action of this model is one stretch of a coroutine between two points   *)
(* at which it really suspends.                                            *)
(***************************************************************************)
EXTENDS Integers, Sequences, FiniteSets, TLC

(***************************************************************************)
(* Bounds of the model.                                                    *)
(***************************************************************************)
\* Number of analysts taken from the head of the list of __main__.py:22-28.
NumAgents == 3

\* Number of copies of an already emitted SignalEvent that the environment
\* may send again (used by SpecDup only).
MaxDup == 2

\* Number of StartAgentEvents the environment may send to a run besides the
\* ones start sends (used by SpecPool only).
MaxExtra == 1

\* Number of concurrent or successive calls of aget_ticker_data followed in
\* SpecClient.
NumCallers == 3

\* Number of endpoints taken from the head of the list of alpha.py:70-89.
NumEndpoints == 2

\* Last value of the clock of SpecClient.
MaxTime == 2

\* Length of the longest list of reports given to _apply_filter in SpecFilter.
MaxLen == 2

\* Last date of a report: dates are the days 1..MaxDate.
MaxDate == 2

\* Number of calls of append on one key.
NumAppends == 3

(***************************************************************************)
(* Static data of the program.                                             *)
(***************************************************************************)
\* __main__.py:22-28, cut to its first NumAgents entries.
ALL_AGENTS ==
    SubSeq(<< "warren_buffett_agent", "ray_dalio_agent", "peter_lynch_agent",
              "cathie_wood_agent", "fundamentalist_agent" >>, 1, NumAgents)

AgentFns == { ALL_AGENTS[i] : i \in 1..Len(ALL_AGENTS) }

\* Position of an analyst in ALL_AGENTS (the order start sends the events).
AgentIndex(fn) == CHOOSE i \in 1..Len(ALL_AGENTS) : ALL_AGENTS[i] = fn

\* ID = Path(__file__).stem of the module that defines the agent function.
ID(fn) ==
    CASE fn = "warren_buffett_agent" -> "_warren_buffett"
      [] fn = "ray_dalio_agent"      -> "_ray_dalio"
      [] fn = "peter_lynch_agent"    -> "_peter_lynch"
      [] fn = "cathie_wood_agent"    -> "_cathie_wood"
      [] fn = "fundamentalist_agent" -> "_fundamental"
      [] fn = "risk_manager_agent"   -> "_risk_manager"

\* src.utils.format.id_to_name: the display name of a module id.
id_to_name(id) ==
    CASE id = "_warren_buffett" -> "Warren Buffett"
      [] id = "_ray_dalio"      -> "Ray Dalio"
      [] id = "_peter_lynch"    -> "Peter Lynch"
      [] id = "_cathie_wood"    -> "Cathie Wood"
      [] id = "_fundamental"    -> "Fundamental"
      [] id = "_risk_manager"   -> "Risk Manager"

\* NAME = id_to_name(ID) of each agent module.
NAME(fn) == id_to_name(ID(fn))

\* SignalEvent.final_verdict: the Literal of _signal.py:8-10.
Verdicts ==
    { "Strong Candidate", "Possible Candidate", "Not a Typical Investment", "Avoid" }

\* num_workers of the run_agent step.
NumWorkers == Len(ALL_AGENTS)

(***************************************************************************)
(* Inputs: the batches of tickers given on the command line, and the       *)
(* behaviour of the two collaborators (data fetch, reasoning service).     *)
(***************************************************************************)
TickerLists ==
    { << "IBM" >>, << "XXXX" >>, << "IBM", "IBM" >>, << "IBM", "MSFT" >>,
      << "IBM", "XXXX" >>, << "XXXX", "IBM" >> }

\* Runs are numbered by their position in the batch.
Runs == UNION { DOMAIN l : l \in TickerLists }

\* client.aget_ticker_data(ticker) raises for every caller (unknown symbol:
\* the service answers with a payload that fails validation, or with an
\* "Information" message, and _fetch raises RuntimeError).
FetchFails(t) == t = "XXXX"

\* The structured answer of the reasoning service to an analyst's prompt.  The
\* prompt is fixed by the analyst and by the data of the ticker, and the
\* service is taken to be a function of its prompt.
AnalystVerdict(fn, t) ==
    LET table == << "Strong Candidate", "Possible Candidate", "Strong Candidate",
                    "Avoid", "Not a Typical Investment" >>
        i == AgentIndex(fn)
    IN  IF t = "IBM" THEN table[i] ELSE table[(i % 5) + 1]

AnalystConfidence(fn, t) ==
    LET table == << 80, 60, 75, 40, 55 >>
        i == AgentIndex(fn)
    IN  IF t = "IBM" THEN table[i] ELSE table[(i % 5) + 1]

\* What the service writes in the "agent" field of its answer (a required
\* field of SignalEvent, filled by the model before generate_output
\* overwrites it).
LLMAgentField == { "Analyst", "Warren Buffett" }

(***************************************************************************)
(* State.                                                                  *)
(***************************************************************************)
VARIABLES
    tickers,    \* args.tickers
    printed,    \* the (ticker, result) pairs printed by run()
    phase,      \* per run: "new", "submitted", "running", "done", "error", "timeout"
    ctx,        \* per Context: the key/value store (ctx.set / ctx.get)
    task,       \* per run and analyst: position and locals of run_agent
    sigQueue,   \* per run: SignalEvents waiting for combine_results
    buffer,     \* per Context: the buffer of ctx.collect_events
    stopEv,     \* per run: the StopEvent returned by combine_results
    result,     \* per run: the result handed to the caller of wf.run
    report,     \* per ticker: docs/signal_events_{ticker}.html
    llmMemo,    \* the answers the reasoning service gave to risk-manager prompts
    aggCount,   \* per run: number of times the aggregation was entered
    noneCount,  \* per run: number of times combine_results returned None
    rmInput,    \* per run: the list passed to risk_manager_agent
    raisedBy,   \* per run: the function whose exception ended the run
    emitted,    \* per run: the SignalEvents returned by run_agent
    dups,       \* number of duplicate SignalEvents sent so far
    pool,       \* per run: StartAgentEvents sent to run_agent besides those of start
    ctor,       \* a call of the SignalEvent constructor: its arguments and outcome
    now,        \* time.time(), in units of the model clock
    tcache,     \* the ticker cache file {symbol}.json
    ecache,     \* per endpoint: the endpoint cache file {symbol}_{function}.json
    call,       \* per call of aget_ticker_data: position, outcome, requests issued
    lock,       \* self._locks[symbol]: its holder and the callers waiting for it
    req,        \* per endpoint: the _fetch coroutine of the fetch round in progress
    svc,        \* the TickerData the service holds for the symbol
    endDate,    \* per call of aget_ticker_data: its end_date argument
    tdata,      \* the content of the ticker cache file
    ret,        \* per call of aget_ticker_data: what _apply_filter gave it
    comb,       \* per run: the SignalEvents held by combine_results invocations
                \* that are at their first await
    flt,        \* calls of _apply_filter on one TickerData: arguments and results
    app         \* calls of append on one key of one Context: the store, the list
                \* objects and the position of each call

\* The variables of the workflow runs.
wfVars ==
    << tickers, printed, phase, ctx, task, sigQueue, buffer, stopEv, result,
       report, llmMemo, aggCount, noneCount, rmInput, raisedBy, emitted, dups >>

\* The variables of the parts of the program modelled on their own.
clVars == << now, tcache, ecache, call, lock, req, svc, endDate, tdata, ret >>

\* The variables of the finer views of single functions.
subVars == << comb, flt, app >>

auxVars == << ctor, clVars, subVars >>

vars == << wfVars, pool, auxVars >>

\* The runs of the batch.
BatchRuns == DOMAIN tickers

NoTask == [ pc |-> "idle", ticker |-> "", llm |-> 0, client |-> 0 ]

NoStop == [ sent |-> FALSE, result |-> {} ]

NoReport == [ by |-> 0, content |-> << >> ]

NoPool == [ sent |-> 0, queued |-> 0, inflight |-> 0 ]

NoCtor == [ args |-> << >>, out |-> "none" ]

\* No SignalEvent constructor call is being followed.
InitCtorIdle ==
    /\ ctor = NoCtor

Callers == 1..NumCallers

\* The functions of the five _fetch calls of aget_ticker_data, cut to the
\* first NumEndpoints.
ENDPOINTS ==
    SubSeq(<< "OVERVIEW", "BALANCE_SHEET", "CASH_FLOW", "EARNINGS",
              "INSIDER_TRANSACTIONS" >>, 1, NumEndpoints)

Endpoints == { ENDPOINTS[i] : i \in 1..Len(ENDPOINTS) }

\* A file of the cache directory: valid tells whether its content passes the
\* validation of the model it is read into.
NoFile == [ exists |-> FALSE, ctime |-> 0, valid |-> FALSE ]

NoCall == [ pc |-> "idle", out |-> "none", reqs |-> 0, waited |-> FALSE ]

\* why: for a _fetch that raised, what made it raise.
NoReq == [ st |-> "none", model |-> "", valid |-> FALSE, why |-> "none" ]

NoLock == [ holder |-> 0, waiters |-> << >> ]

\* A TickerData without any report.
NoData ==
    [ cf_annual |-> << >>, cf_quarterly |-> << >>, cf_quarterly_none |-> FALSE,
      bs_annual |-> << >>, bs_quarterly |-> << >>, ea_annual |-> << >>,
      ea_quarterly |-> << >>, insider |-> << >> ]

NoRet == [ raised |-> FALSE, data |-> NoData ]

\* No call of aget_ticker_data is being followed.
InitClientIdle ==
    /\ now = 0
    /\ tcache = NoFile
    /\ ecache = [ e \in Endpoints |-> NoFile ]
    /\ call = [ c \in Callers |-> NoCall ]
    /\ lock = NoLock
    /\ req = [ e \in Endpoints |-> NoReq ]
    /\ svc = NoData
    /\ endDate = [ c \in Callers |-> 0 ]
    /\ tdata = NoData
    /\ ret = [ c \in Callers |-> NoRet ]

NoFlt == [ pc |-> "idle", data |-> << >>, d1 |-> 0, d2 |-> 0,
           once |-> << >>, twice |-> << >> ]

\* The calls of append(context, key, value) of one key.
Appenders == 1..NumAppends

\* A Context key that was never set.
Unset == [ kind |-> "unset", v |-> 0, id |-> 0 ]

NoAppend == [ pc |-> "idle", id |-> 0 ]

NoApp == [ yields |-> FALSE, before |-> << >>, store |-> Unset, heap |-> << >>,
           calls |-> [ a \in Appenders |-> NoAppend ] ]

InitSubIdle ==
    /\ comb = [ r \in Runs |-> << >> ]
    /\ flt = NoFlt
    /\ app = NoApp

InitAuxIdle ==
    /\ InitCtorIdle
    /\ InitClientIdle
    /\ InitSubIdle

InitWorkflow ==
    /\ tickers \in TickerLists
    /\ printed = << >>
    /\ phase = [ r \in Runs |-> "new" ]
    /\ ctx = [ r \in Runs |-> << >> ]
    /\ task = [ r \in Runs |-> [ fn \in AgentFns |-> NoTask ] ]
    /\ sigQueue = [ r \in Runs |-> << >> ]
    /\ buffer = [ r \in Runs |-> << >> ]
    /\ stopEv = [ r \in Runs |-> NoStop ]
    /\ result = [ r \in Runs |-> {} ]
    /\ report = [ t \in { "IBM", "MSFT", "XXXX" } |-> NoReport ]
    /\ llmMemo = {}
    /\ aggCount = [ r \in Runs |-> 0 ]
    /\ noneCount = [ r \in Runs |-> 0 ]
    /\ rmInput = [ r \in Runs |-> << >> ]
    /\ raisedBy = [ r \in Runs |-> "none" ]
    /\ emitted = [ r \in Runs |-> {} ]
    /\ dups = 0
    /\ pool = [ r \in Runs |-> NoPool ]

Init ==
    /\ InitWorkflow
    /\ InitAuxIdle

(***************************************************************************)
(* Helpers: Python lists, dicts and the library calls the steps make.      *)
(***************************************************************************)
SeqToSet(s) == { s[i] : i \in 1..Len(s) }

\* A dict is the set of its (key, value) items; d[k] = v replaces the item of k.
DictSet(d, k, v) == { p \in d : p[1] # k } \cup { << k, v >> }

DictKeys(d) == { p[1] : p \in d }

\* {event.agent: event.final_verdict for event in results}: the items are
\* inserted in list order, a later item of the same key replaces the earlier.
RECURSIVE DictFromList(_)
DictFromList(results) ==
    IF results = << >>
    THEN {}
    ELSE LET n == Len(results)
         IN  DictSet(DictFromList(SubSeq(results, 1, n - 1)),
                     results[n].agent, results[n].final_verdict)

CombinedResultByPosition(results) ==
    { << NAME(ALL_AGENTS[((i - 1) % Len(ALL_AGENTS)) + 1]), results[i].final_verdict >> :
        i \in 1..Len(results) }

\* combined_result of combine_results.
CombinedResult(results) == DictFromList(results)

GenerateOutputKeep(raw, name) == raw

\* generate_output: the structured answer of the service with its agent
\* field overwritten by the name of the calling agent.
GenerateOutput(raw, name) == [ raw EXCEPT !.agent = name ]

CollectEventsOffByOne(buf, ev, n) ==
    LET all == Append(buf, ev)
    IN  IF Len(all) >= n - 1
        THEN [ ok |-> TRUE, results |-> all, buffer |-> << >> ]
        ELSE [ ok |-> FALSE, results |-> << >>, buffer |-> all ]

CollectEventsKeep(buf, ev, n) ==
    LET all == Append(buf, ev)
    IN  IF Len(all) >= n
        THEN [ ok |-> TRUE, results |-> SubSeq(all, 1, n), buffer |-> all ]
        ELSE [ ok |-> FALSE, results |-> << >>, buffer |-> all ]

CollectEventsSubmission(buf, ev, n) ==
    LET all == Append(buf, ev)
        byAgent == [ i \in 1..n |->
                       CHOOSE e \in SeqToSet(all) : e.agent = NAME(ALL_AGENTS[i]) ]
    IN  IF Len(all) >= n
        THEN [ ok |-> TRUE, results |-> byAgent,
               buffer |-> SubSeq(all, n + 1, Len(all)) ]
        ELSE [ ok |-> FALSE, results |-> << >>, buffer |-> all ]

\* ctx.collect_events(ev, [SignalEvent] * n): ev is appended to the buffer;
\* one buffered event is popped per expected entry; with n events popped
\* they are returned (and stay removed), otherwise they are put back and
\* the call returns None (ok = FALSE).
CollectEvents(buf, ev, n) ==
    LET all == Append(buf, ev)
    IN  IF Len(all) >= n
        THEN [ ok |-> TRUE, results |-> SubSeq(all, 1, n),
               buffer |-> SubSeq(all, n + 1, Len(all)) ]
        ELSE [ ok |-> FALSE, results |-> << >>, buffer |-> all ]

CtxShared(r) == 1

\* The Context of a run: wf.run(...) is called without ctx, so every run
\* gets a Context of its own.
CtxOf(r) == r

ExpectedCountShort == Len(ALL_AGENTS) - 1

\* start: the value stored under "num_agents".
ExpectedCount == Len(ALL_AGENTS)

\* The key under which an analyst looks up its language model.
LlmKey(fn) == IF fn = "peter_lynch_agent" THEN "llm" ELSE "llm_struct"

CtxGetDefault(c, k) ==
    IF k \in DOMAIN c THEN [ found |-> TRUE, value |-> c[k] ]
                      ELSE [ found |-> TRUE, value |-> 0 ]

\* await context.get(key), called without a default: the stored value, or
\* (found = FALSE) the ValueError the Context raises for a key never set.
CtxGet(c, k) ==
    IF k \in DOMAIN c THEN [ found |-> TRUE, value |-> c[k] ]
                      ELSE [ found |-> FALSE, value |-> 0 ]

StartContextPartial(r) ==
    [ llm_struct |-> r, alpha_client |-> r,
      ticker |-> tickers[r], num_agents |-> ExpectedCount ]

\* Workflow.start, lines 44-53: the Context after the five ctx.set calls.
StartContext(r) ==
    [ llm |-> r, llm_struct |-> r, alpha_client |-> r,
      ticker |-> tickers[r], num_agents |-> ExpectedCount ]

\* The ticker of the run of the MockWorkflow of an agent module.
MockTicker == "META"

\* MockWorkflow.agent of an agent module (e.g. _peter_lynch.py:249-251): the
\* Context after its three ctx.set calls.
MockContext(r) ==
    [ llm_struct |-> r, alpha_client |-> r, ticker |-> MockTicker ]

\* Number of run_agent invocations of a run that are in flight.
InFlight(r) ==
    Cardinality({ fn \in AgentFns : task[r][fn].pc \in { "fetching", "hung" } })
        + pool[r].inflight

WorkerFreeAlways(r) == TRUE

\* @step(num_workers=len(ALL_AGENTS)): the step has num_workers workers per
\* run, each takes one event at a time; one of them is free.
WorkerFree(r) == InFlight(r) < NumWorkers

\* The answers the reasoning service can give to the risk manager's prompt:
\* the prompt is the list of signals, in the order of the list; a prompt
\* seen before gets the answer given before.
RiskAnswers(signals) ==
    IF \E m \in llmMemo : m[1] = signals
    THEN { m[2] : m \in { x \in llmMemo : x[1] = signals } }
    ELSE Verdicts

TerminateLeave(r, how) ==
    /\ phase' = [ phase EXCEPT ![r] = how ]
    /\ UNCHANGED << task, sigQueue, buffer, pool >>

\* The end of a run: the runtime cancels every step worker that is still
\* pending; the queues and the Context of the run are dropped with it.
Terminate(r, how) ==
    /\ phase' = [ phase EXCEPT ![r] = how ]
    /\ task' = [ task EXCEPT ![r] =
                   [ fn \in AgentFns |->
                       IF task[r][fn].pc \in { "queued", "fetching", "hung", "mock_fetching" }
                       THEN [ task[r][fn] EXCEPT !.pc = "cancelled" ]
                       ELSE task[r][fn] ] ]
    /\ sigQueue' = [ sigQueue EXCEPT ![r] = << >> ]
    /\ buffer' = [ buffer EXCEPT ![CtxOf(r)] = << >> ]
    /\ pool' = [ pool EXCEPT ![r] = NoPool ]

(***************************************************************************)
(* The batch loop run() and the steps of the workflow.                     *)
(***************************************************************************)
SubmitEarly(r) ==
    /\ r \in BatchRuns
    /\ phase[r] = "new"
    /\ phase' = [ phase EXCEPT ![r] = "submitted" ]
    /\ UNCHANGED << tickers, printed, ctx, task, sigQueue, buffer, stopEv, result,
                    report, llmMemo, aggCount, noneCount, rmInput, raisedBy,
                    emitted, dups >>
    /\ UNCHANGED << pool, auxVars >>

SubmitAfterError(r) ==
    /\ r \in BatchRuns
    /\ phase[r] = "new"
    /\ \/ Len(printed) = r - 1
       \/ r > 1 /\ phase[r - 1] \in { "error", "timeout" }
    /\ phase' = [ phase EXCEPT ![r] = "submitted" ]
    /\ UNCHANGED << tickers, printed, ctx, task, sigQueue, buffer, stopEv, result,
                    report, llmMemo, aggCount, noneCount, rmInput, raisedBy,
                    emitted, dups >>
    /\ UNCHANGED << pool, auxVars >>

\* run(), the call wf.run(ticker=ticker, config=args.config) of the loop: the
\* run for ticker r is started when the results of all earlier tickers have
\* been printed.  The runtime creates the Context, the queues and the step
\* workers of the run and sends the StartEvent.
Submit(r) ==
    /\ r \in BatchRuns
    /\ phase[r] = "new"
    /\ Len(printed) = r - 1
    /\ phase' = [ phase EXCEPT ![r] = "submitted" ]
    /\ UNCHANGED << tickers, printed, ctx, task, sigQueue, buffer, stopEv, result,
                    report, llmMemo, aggCount, noneCount, rmInput, raisedBy,
                    emitted, dups >>
    /\ UNCHANGED << pool, auxVars >>

\* A caller that starts the runs of all its tickers without awaiting any of
\* them (asyncio.gather over wf.run(...) on one Workflow object).
SubmitConcurrent(r) ==
    /\ r \in BatchRuns
    /\ phase[r] = "new"
    /\ phase' = [ phase EXCEPT ![r] = "submitted" ]
    /\ UNCHANGED << tickers, printed, ctx, task, sigQueue, buffer, stopEv, result,
                    report, llmMemo, aggCount, noneCount, rmInput, raisedBy,
                    emitted, dups >>
    /\ UNCHANGED << pool, auxVars >>

\* run(), print(ticker); print(result) after wf.run returned.
PrintResult(r) ==
    /\ r \in BatchRuns
    /\ phase[r] = "done"
    /\ Len(printed) = r - 1
    /\ printed' = Append(printed, << tickers[r], result[r] >>)
    /\ UNCHANGED << tickers, phase, ctx, task, sigQueue, buffer, stopEv, result,
                    report, llmMemo, aggCount, noneCount, rmInput, raisedBy,
                    emitted, dups >>
    /\ UNCHANGED << pool, auxVars >>

\* Workflow.start: the five ctx.set calls, then one StartAgentEvent per
\* analyst, in the order of ALL_AGENTS.  None of the awaits suspends.
Start(r) ==
    /\ phase[r] = "submitted"
    /\ phase' = [ phase EXCEPT ![r] = "running" ]
    /\ ctx' = [ ctx EXCEPT ![CtxOf(r)] = StartContext(r) ]
    /\ task' = [ task EXCEPT ![r] =
                   [ fn \in AgentFns |-> [ NoTask EXCEPT !.pc = "queued" ] ] ]
    /\ UNCHANGED << tickers, printed, sigQueue, buffer, stopEv, result, report,
                    llmMemo, aggCount, noneCount, rmInput, raisedBy, emitted, dups >>
    /\ UNCHANGED << pool, auxVars >>

\* Workflow.run_agent up to the first suspension of the analyst: a free
\* worker takes the oldest StartAgentEvent; the analyst reads ticker, its
\* language model and the client from the Context and awaits
\* client.aget_ticker_data(ticker).  ctx.get of a key that was never set
\* raises, which ends the run.
RunAgentBegin(r, fn) ==
    /\ phase[r] = "running"
    /\ task[r][fn].pc = "queued"
    /\ \A g \in AgentFns : AgentIndex(g) < AgentIndex(fn) => task[r][g].pc # "queued"
    /\ WorkerFree(r)
    /\ LET c == ctx[CtxOf(r)]
           t == CtxGet(c, "ticker")
           l == CtxGet(c, LlmKey(fn))
           a == CtxGet(c, "alpha_client")
       IN  IF t.found /\ l.found /\ a.found
           THEN /\ task' = [ task EXCEPT ![r][fn] =
                               [ pc |-> "fetching", ticker |-> t.value,
                                 llm |-> l.value, client |-> a.value ] ]
                /\ UNCHANGED << phase, sigQueue, buffer, raisedBy, pool >>
           ELSE /\ raisedBy' = [ raisedBy EXCEPT ![r] = fn ]
                /\ Terminate(r, "error")
    /\ UNCHANGED << tickers, printed, ctx, stopEv, result, report, llmMemo,
                    aggCount, noneCount, rmInput, emitted, dups >>
    /\ UNCHANGED auxVars

\* Workflow.run_agent from the return of aget_ticker_data to the return of
\* the step: compute_metrics, generate_output (a blocking call of the
\* reasoning service) and the SignalEvent handed to the runtime, which puts
\* it in the queue of combine_results.
RunAgentReturn(r, fn) ==
    /\ phase[r] = "running"
    /\ task[r][fn].pc = "fetching"
    /\ ~FetchFails(task[r][fn].ticker)
    /\ \E ag \in LLMAgentField :
         LET t == task[r][fn].ticker
             raw == [ agent |-> ag, final_verdict |-> AnalystVerdict(fn, t),
                      confidence |-> AnalystConfidence(fn, t), explanation |-> t ]
             ev == GenerateOutput(raw, NAME(fn))
         IN  /\ sigQueue' = [ sigQueue EXCEPT ![r] = Append(@, ev) ]
             /\ emitted' = [ emitted EXCEPT ![r] = @ \cup { ev } ]
    /\ task' = [ task EXCEPT ![r][fn].pc = "returned" ]
    /\ UNCHANGED << tickers, printed, phase, ctx, buffer, stopEv, result, report,
                    llmMemo, aggCount, noneCount, rmInput, raisedBy, dups >>
    /\ UNCHANGED << pool, auxVars >>

RunAgentRaiseSwallowed(r, fn) ==
    /\ phase[r] = "running"
    /\ task[r][fn].pc = "fetching"
    /\ LET ev == [ agent |-> NAME(fn), final_verdict |-> "None", confidence |-> 0,
                   explanation |-> task[r][fn].ticker ]
       IN  /\ sigQueue' = [ sigQueue EXCEPT ![r] = Append(@, ev) ]
           /\ emitted' = [ emitted EXCEPT ![r] = @ \cup { ev } ]
    /\ task' = [ task EXCEPT ![r][fn].pc = "raised" ]
    /\ UNCHANGED << tickers, printed, phase, ctx, buffer, stopEv, result, report,
                    llmMemo, aggCount, noneCount, rmInput, raisedBy, dups >>
    /\ UNCHANGED << pool, auxVars >>

\* Workflow.run_agent when the analyst raises (aget_ticker_data or the
\* reasoning service failed): run_agent has no handler, the exception leaves
\* the step, and the runtime ends the run with it and cancels the other
\* step workers.
RunAgentRaise(r, fn) ==
    /\ phase[r] = "running"
    /\ task[r][fn].pc = "fetching"
    /\ raisedBy' = [ raisedBy EXCEPT ![r] = fn ]
    /\ phase' = [ phase EXCEPT ![r] = "error" ]
    /\ task' = [ task EXCEPT ![r] =
                   [ g \in AgentFns |->
                       IF g = fn
                       THEN [ task[r][g] EXCEPT !.pc = "raised" ]
                       ELSE IF task[r][g].pc \in { "queued", "fetching", "hung" }
                            THEN [ task[r][g] EXCEPT !.pc = "cancelled" ]
                            ELSE task[r][g] ] ]
    /\ sigQueue' = [ sigQueue EXCEPT ![r] = << >> ]
    /\ buffer' = [ buffer EXCEPT ![CtxOf(r)] = << >> ]
    /\ pool' = [ pool EXCEPT ![r] = NoPool ]
    /\ UNCHANGED << tickers, printed, ctx, stopEv, result, report, llmMemo,
                    aggCount, noneCount, rmInput, emitted, dups >>
    /\ UNCHANGED auxVars

\* The data fetch of an analyst never resolves.
FetchHang(r, fn) ==
    /\ phase[r] = "running"
    /\ task[r][fn].pc = "fetching"
    /\ ~FetchFails(task[r][fn].ticker)
    /\ task' = [ task EXCEPT ![r][fn].pc = "hung" ]
    /\ UNCHANGED << tickers, printed, phase, ctx, sigQueue, buffer, stopEv, result,
                    report, llmMemo, aggCount, noneCount, rmInput, raisedBy,
                    emitted, dups >>
    /\ UNCHANGED << pool, auxVars >>

\* combine_results, lines 67-68: fewer than num_agents events are buffered.
ReturnNone(r) ==
    /\ sigQueue' = [ sigQueue EXCEPT ![r] = Tail(@) ]
    /\ noneCount' = [ noneCount EXCEPT ![r] = @ + 1 ]
    /\ UNCHANGED << phase, task, stopEv, report, llmMemo, aggCount, rmInput, raisedBy,
                    pool >>

AggregatePartial(r, results, rest) ==
    /\ sigQueue' = [ sigQueue EXCEPT ![r] = Tail(@) ]
    /\ raisedBy' = [ raisedBy EXCEPT ![r] = "risk_manager_agent" ]
    /\ stopEv' = [ stopEv EXCEPT ![r] = [ sent |-> TRUE, result |-> CombinedResult(results) ] ]
    /\ buffer' = [ buffer EXCEPT ![CtxOf(r)] = rest ]
    /\ UNCHANGED << phase, task, report, llmMemo, pool >>

\* combine_results, line 71, when risk_manager_agent raises (the reasoning
\* service failed or its answer is no SignalEvent): nothing catches it, the
\* exception leaves the step and the runtime ends the run with it.
AggregateRaise(r, results, rest) ==
    /\ raisedBy' = [ raisedBy EXCEPT ![r] = "risk_manager_agent" ]
    /\ Terminate(r, "error")
    /\ UNCHANGED << stopEv, report, llmMemo >>

\* combine_results, lines 70-79: the risk-manager pass over the collected
\* list, its result put in front of the list, the report written, and the
\* StopEvent with the agent -> verdict dict returned.
AggregateOk(r, results, rest) ==
    \E v \in RiskAnswers(results), ag \in LLMAgentField :
        LET c == ctx[CtxOf(r)]
            raw == [ agent |-> ag, final_verdict |-> v, confidence |-> 70,
                     explanation |-> results[1].explanation ]
            risk == GenerateOutput(raw, NAME("risk_manager_agent"))
            all == << risk >> \o results
        IN  /\ llmMemo' = llmMemo \cup { << results, v >> }
            /\ report' = [ report EXCEPT ![c["ticker"]] = [ by |-> r, content |-> all ] ]
            /\ stopEv' = [ stopEv EXCEPT ![r] =
                             [ sent |-> TRUE, result |-> CombinedResult(all) ] ]
            /\ sigQueue' = [ sigQueue EXCEPT ![r] = Tail(@) ]
            /\ buffer' = [ buffer EXCEPT ![CtxOf(r)] = rest ]
            /\ UNCHANGED << phase, task, raisedBy, pool >>

\* Workflow.combine_results, one invocation for the oldest queued
\* SignalEvent.  No await of the body suspends (ctx.get returns at once,
\* collect_events is synchronous, the reasoning service is called with a
\* blocking call), so the whole body is one step.
CombineResults(r) ==
    /\ phase[r] = "running"
    /\ sigQueue[r] # << >>
    /\ LET c == ctx[CtxOf(r)]
           col == CollectEvents(buffer[CtxOf(r)], Head(sigQueue[r]), c["num_agents"])
       IN  IF ~col.ok
           THEN /\ buffer' = [ buffer EXCEPT ![CtxOf(r)] = col.buffer ]
                /\ ReturnNone(r)
           ELSE /\ aggCount' = [ aggCount EXCEPT ![r] = @ + 1 ]
                /\ rmInput' = [ rmInput EXCEPT ![r] = col.results ]
                /\ UNCHANGED noneCount
                /\ \/ AggregateOk(r, col.results, col.buffer)
                   \/ AggregateRaise(r, col.results, col.buffer)
    /\ UNCHANGED << tickers, printed, ctx, result, emitted, dups >>
    /\ UNCHANGED auxVars

\* The _done step of the runtime: it consumes the StopEvent, stores its
\* result as the result of the run and ends the run.
Done(r) ==
    /\ phase[r] = "running"
    /\ stopEv[r].sent
    /\ result' = [ result EXCEPT ![r] = stopEv[r].result ]
    /\ Terminate(r, "done")
    /\ UNCHANGED << tickers, printed, ctx, stopEv, report, llmMemo, aggCount,
                    noneCount, rmInput, raisedBy, emitted, dups >>
    /\ UNCHANGED auxVars

TimeoutNever(r) ==
    /\ FALSE
    /\ UNCHANGED vars

\* Workflow(timeout=10 * 60): the timer of the run expires before the _done
\* step has ended it; the runtime cancels the step workers and the caller
\* gets the timeout error.
Timeout(r) ==
    /\ phase[r] \in { "submitted", "running" }
    /\ Terminate(r, "timeout")
    /\ UNCHANGED << tickers, printed, ctx, stopEv, result, report, llmMemo,
                    aggCount, noneCount, rmInput, raisedBy, emitted, dups >>
    /\ UNCHANGED auxVars

\* A SignalEvent that a run_agent invocation of the run has already returned
\* is delivered to combine_results once more.
Duplicate(r) ==
    /\ phase[r] = "running"
    /\ dups < MaxDup
    /\ \E ev \in emitted[r] : sigQueue' = [ sigQueue EXCEPT ![r] = Append(@, ev) ]
    /\ dups' = dups + 1
    /\ UNCHANGED << tickers, printed, phase, ctx, task, buffer, stopEv, result,
                    report, llmMemo, aggCount, noneCount, rmInput, raisedBy, emitted >>
    /\ UNCHANGED << pool, auxVars >>

(***************************************************************************)
(* Specifications.                                                         *)
(***************************************************************************)
Steps(r) ==
    \/ Start(r)
    \/ \E fn \in AgentFns : RunAgentBegin(r, fn)
    \/ \E fn \in AgentFns : RunAgentReturn(r, fn)
    \/ \E fn \in AgentFns : RunAgentRaise(r, fn)
    \/ CombineResults(r)
    \/ Done(r)
    \/ Timeout(r)

\* The program: python -m src --tickers ...
Next ==
    \E r \in Runs :
        \/ Submit(r)
        \/ PrintResult(r)
        \/ Steps(r)
        \/ \E fn \in AgentFns : FetchHang(r, fn)

Spec == Init /\ [][Next]_vars

\* A batch of one ticker, with the fairness the event loop gives: a step
\* whose event is queued is run, and the timer of a run expires.
InitOne ==
    /\ Init
    /\ Len(tickers) = 1

Fairness ==
    \A r \in Runs :
        /\ WF_vars(Start(r))
        /\ WF_vars(CombineResults(r))
        /\ WF_vars(Done(r))
        /\ WF_vars(Timeout(r))

SpecFair == InitOne /\ [][Next]_vars /\ Fairness

\* One run in which the environment delivers SignalEvents a second time.
InitDup ==
    /\ Init
    /\ tickers = << "IBM" >>

NextDup ==
    \E r \in Runs :
        \/ Submit(r)
        \/ PrintResult(r)
        \/ Steps(r)
        \/ Duplicate(r)

SpecDup == InitDup /\ [][NextDup]_vars

\* Two runs for different tickers started together on one Workflow object.
InitConcurrent ==
    /\ Init
    /\ tickers = << "IBM", "MSFT" >>

NextConcurrent ==
    \E r \in Runs :
        \/ SubmitConcurrent(r)
        \/ Steps(r)

SpecConcurrent == InitConcurrent /\ [][NextConcurrent]_vars

\* The environment sends one more StartAgentEvent, for the first analyst of
\* ALL_AGENTS, to a run whose start step has sent its own.
ExtraStart(r) ==
    /\ phase[r] = "running"
    /\ pool[r].sent < MaxExtra
    /\ pool' = [ pool EXCEPT ![r] = [ @ EXCEPT !.sent = @ + 1, !.queued = @ + 1 ] ]
    /\ UNCHANGED << wfVars, auxVars >>

\* run_agent for such an event: it is behind the events of start in the
\* queue of the step, and it is taken when a worker is free.
ExtraBegin(r) ==
    /\ phase[r] = "running"
    /\ pool[r].queued > 0
    /\ \A g \in AgentFns : task[r][g].pc # "queued"
    /\ WorkerFree(r)
    /\ pool' = [ pool EXCEPT ![r] = [ @ EXCEPT !.queued = @ - 1, !.inflight = @ + 1 ] ]
    /\ UNCHANGED << wfVars, auxVars >>

\* The invocation returns the SignalEvent of its analyst.
ExtraReturn(r) ==
    /\ phase[r] = "running"
    /\ pool[r].inflight > 0
    /\ \E ag \in LLMAgentField :
         LET fn == ALL_AGENTS[1]
             t == ctx[CtxOf(r)]["ticker"]
             raw == [ agent |-> ag, final_verdict |-> AnalystVerdict(fn, t),
                      confidence |-> AnalystConfidence(fn, t), explanation |-> t ]
             ev == GenerateOutput(raw, NAME(fn))
         IN  /\ sigQueue' = [ sigQueue EXCEPT ![r] = Append(@, ev) ]
             /\ emitted' = [ emitted EXCEPT ![r] = @ \cup { ev } ]
    /\ pool' = [ pool EXCEPT ![r] = [ @ EXCEPT !.inflight = @ - 1 ] ]
    /\ UNCHANGED << tickers, printed, phase, ctx, task, buffer, stopEv, result,
                    report, llmMemo, aggCount, noneCount, rmInput, raisedBy, dups >>
    /\ UNCHANGED auxVars

NextPool ==
    \E r \in Runs :
        \/ Submit(r)
        \/ PrintResult(r)
        \/ Steps(r)
        \/ ExtraStart(r)
        \/ ExtraBegin(r)
        \/ ExtraReturn(r)

\* One run whose run_agent step gets more events than it has workers.
SpecPool == InitDup /\ [][NextPool]_vars

\* A caller that catches the error of a run and goes on with the next ticker
\* on the same Workflow object (try: await wf.run(...) except: continue).
SubmitNext(r) ==
    /\ r \in BatchRuns
    /\ phase[r] = "new"
    /\ r > 1 => phase[r - 1] \in { "done", "error", "timeout" }
    /\ phase' = [ phase EXCEPT ![r] = "submitted" ]
    /\ UNCHANGED << tickers, printed, ctx, task, sigQueue, buffer, stopEv, result,
                    report, llmMemo, aggCount, noneCount, rmInput, raisedBy,
                    emitted, dups >>
    /\ UNCHANGED << pool, auxVars >>

InitResume ==
    /\ Init
    /\ Len(tickers) = 2

NextResume ==
    \E r \in Runs :
        \/ SubmitNext(r)
        \/ Steps(r)
        \/ \E fn \in AgentFns : FetchHang(r, fn)

\* Two runs on one Workflow object, the second started whatever the end of
\* the first.
SpecResume == InitResume /\ [][NextResume]_vars

(***************************************************************************)
(* The MockWorkflow at the end of each agent module (python -m             *)
(* src.agents._peter_lynch and the like): one step that fills the Context, *)
(* calls the analyst of the module and returns its result in a StopEvent.  *)
(***************************************************************************)
\* MockWorkflow.agent up to the first suspension of the analyst: the three
\* ctx.set calls, then the analyst reads ticker, its language model and the
\* client and awaits client.aget_ticker_data(ticker).  context.get of a key
\* that was never set raises; the exception leaves the step and ends the run.
MockAgentBegin(r, fn) ==
    /\ r = 1
    /\ \A q \in Runs : phase[q] = "new"
    /\ LET c == MockContext(r)
           t == CtxGet(c, "ticker")
           l == CtxGet(c, LlmKey(fn))
           a == CtxGet(c, "alpha_client")
       IN  /\ ctx' = [ ctx EXCEPT ![CtxOf(r)] = c ]
           /\ IF t.found /\ l.found /\ a.found
              THEN /\ phase' = [ phase EXCEPT ![r] = "mock_running" ]
                   /\ task' = [ task EXCEPT ![r][fn] =
                                  [ pc |-> "mock_fetching", ticker |-> t.value,
                                    llm |-> l.value, client |-> a.value ] ]
                   /\ UNCHANGED << sigQueue, buffer, raisedBy, pool >>
              ELSE /\ raisedBy' = [ raisedBy EXCEPT ![r] = fn ]
                   /\ Terminate(r, "error")
    /\ UNCHANGED << tickers, printed, stopEv, result, report, llmMemo, aggCount,
                    noneCount, rmInput, emitted, dups >>
    /\ UNCHANGED auxVars

\* MockWorkflow.agent from the return of aget_ticker_data to its own return:
\* the StopEvent carries the SignalEvent of the analyst (kept here as a set
\* of one element).
MockAgentReturn(r, fn) ==
    /\ phase[r] = "mock_running"
    /\ task[r][fn].pc = "mock_fetching"
    /\ \E ag \in LLMAgentField :
         LET t == task[r][fn].ticker
             raw == [ agent |-> ag, final_verdict |-> AnalystVerdict(fn, t),
                      confidence |-> AnalystConfidence(fn, t), explanation |-> t ]
             ev == GenerateOutput(raw, NAME(fn))
         IN  stopEv' = [ stopEv EXCEPT ![r] = [ sent |-> TRUE, result |-> { ev } ] ]
    /\ task' = [ task EXCEPT ![r][fn].pc = "returned" ]
    /\ UNCHANGED << tickers, printed, phase, ctx, sigQueue, buffer, result, report,
                    llmMemo, aggCount, noneCount, rmInput, raisedBy, emitted, dups >>
    /\ UNCHANGED << pool, auxVars >>

\* The analyst raises after its reads (the fetch or the reasoning service
\* failed).
MockAgentRaise(r, fn) ==
    /\ phase[r] = "mock_running"
    /\ task[r][fn].pc = "mock_fetching"
    /\ raisedBy' = [ raisedBy EXCEPT ![r] = fn ]
    /\ Terminate(r, "error")
    /\ UNCHANGED << tickers, printed, ctx, stopEv, result, report, llmMemo,
                    aggCount, noneCount, rmInput, emitted, dups >>
    /\ UNCHANGED auxVars

\* The _done step of the run of the MockWorkflow.
MockDone(r) ==
    /\ phase[r] = "mock_running"
    /\ stopEv[r].sent
    /\ result' = [ result EXCEPT ![r] = stopEv[r].result ]
    /\ Terminate(r, "mock_done")
    /\ UNCHANGED << tickers, printed, ctx, stopEv, report, llmMemo, aggCount,
                    noneCount, rmInput, raisedBy, emitted, dups >>
    /\ UNCHANGED auxVars

\* The timer of the run of the MockWorkflow expires.
MockTimeout(r) ==
    /\ phase[r] = "mock_running"
    /\ Terminate(r, "timeout")
    /\ UNCHANGED << tickers, printed, ctx, stopEv, result, report, llmMemo,
                    aggCount, noneCount, rmInput, raisedBy, emitted, dups >>
    /\ UNCHANGED auxVars

\* print(result.model_dump_json(indent=2)) of the module: no ticker line.
MockPrint(r) ==
    /\ phase[r] = "mock_done"
    /\ printed = << >>
    /\ printed' = << << "", result[r] >> >>
    /\ UNCHANGED << tickers, phase, ctx, task, sigQueue, buffer, stopEv, result,
                    report, llmMemo, aggCount, noneCount, rmInput, raisedBy,
                    emitted, dups >>
    /\ UNCHANGED << pool, auxVars >>

MockSteps(r) ==
    \/ \E fn \in AgentFns : MockAgentBegin(r, fn)
    \/ \E fn \in AgentFns : MockAgentReturn(r, fn)
    \/ \E fn \in AgentFns : MockAgentRaise(r, fn)
    \/ MockDone(r)
    \/ MockTimeout(r)
    \/ MockPrint(r)

\* The entry points of the package: python -m src, or the module of one of
\* the agents.
NextPackage ==
    \/ Next
    \/ \E r \in Runs : MockSteps(r)

SpecPackage == Init /\ [][NextPackage]_vars

(***************************************************************************)
(* combine_results seen at its awaits: an invocation that has taken its    *)
(* SignalEvent may be suspended at await ctx.get("num_agents") (the        *)
(* Context guards its store with an asyncio.Lock), and the step has        *)
(* several workers, so several invocations may be there at once.           *)
(***************************************************************************)
\* @step without num_workers: the default of the decorator.
CombineWorkers == 4

TakeBufferAppended(buf, ev) == Append(buf, ev)

\* The collect_events buffer when an invocation of combine_results is at its
\* first await: collect_events has not been called, ev is in no buffer yet.
TakeBuffer(buf, ev) == buf

\* combine_results up to await ctx.get("num_agents"): a free worker of the
\* step takes the oldest SignalEvent of the queue.
CombineTake(r) ==
    /\ phase[r] = "running"
    /\ sigQueue[r] # << >>
    /\ Len(comb[r]) < CombineWorkers
    /\ comb' = [ comb EXCEPT ![r] = Append(@, Head(sigQueue[r])) ]
    /\ sigQueue' = [ sigQueue EXCEPT ![r] = Tail(@) ]
    /\ buffer' = [ buffer EXCEPT ![CtxOf(r)] = TakeBuffer(@, Head(sigQueue[r])) ]
    /\ UNCHANGED << tickers, printed, phase, ctx, task, stopEv, result, report,
                    llmMemo, aggCount, noneCount, rmInput, raisedBy, emitted, dups >>
    /\ UNCHANGED << pool, ctor, clVars, flt, app >>

\* combine_results from the return of ctx.get("num_agents") to the return
\* of the step (lines 66-79), for the i-th of the suspended invocations:
\* collect_events and everything after it run without a suspension.
CombineCollect(r, i) ==
    /\ phase[r] = "running"
    /\ i \in 1..Len(comb[r])
    /\ LET c == ctx[CtxOf(r)]
           col == CollectEvents(buffer[CtxOf(r)], comb[r][i], c["num_agents"])
           left == SubSeq(comb[r], 1, i - 1) \o SubSeq(comb[r], i + 1, Len(comb[r]))
       IN  /\ comb' = [ comb EXCEPT ![r] = left ]
           /\ IF ~col.ok
              THEN /\ buffer' = [ buffer EXCEPT ![CtxOf(r)] = col.buffer ]
                   /\ noneCount' = [ noneCount EXCEPT ![r] = @ + 1 ]
                   /\ UNCHANGED << phase, task, sigQueue, stopEv, report, llmMemo,
                                   aggCount, rmInput, raisedBy, pool >>
              ELSE /\ aggCount' = [ aggCount EXCEPT ![r] = @ + 1 ]
                   /\ rmInput' = [ rmInput EXCEPT ![r] = col.results ]
                   /\ UNCHANGED noneCount
                   /\ \/ \E v \in RiskAnswers(col.results), ag \in LLMAgentField :
                           LET raw == [ agent |-> ag, final_verdict |-> v,
                                        confidence |-> 70,
                                        explanation |-> col.results[1].explanation ]
                               risk == GenerateOutput(raw, NAME("risk_manager_agent"))
                               all == << risk >> \o col.results
                           IN  /\ llmMemo' = llmMemo \cup { << col.results, v >> }
                               /\ report' = [ report EXCEPT ![c["ticker"]] =
                                                [ by |-> r, content |-> all ] ]
                               /\ stopEv' = [ stopEv EXCEPT ![r] =
                                                [ sent |-> TRUE,
                                                  result |-> CombinedResult(all) ] ]
                               /\ buffer' = [ buffer EXCEPT ![CtxOf(r)] = col.buffer ]
                               /\ UNCHANGED << phase, task, sigQueue, raisedBy, pool >>
                      \/ /\ raisedBy' = [ raisedBy EXCEPT ![r] = "risk_manager_agent" ]
                         /\ Terminate(r, "error")
                         /\ UNCHANGED << stopEv, report, llmMemo >>
    /\ UNCHANGED << tickers, printed, ctx, result, emitted, dups >>
    /\ UNCHANGED << ctor, clVars, flt, app >>

NextSteps ==
    \E r \in Runs :
        \/ Submit(r)
        \/ PrintResult(r)
        \/ Start(r)
        \/ \E fn \in AgentFns : RunAgentBegin(r, fn)
        \/ \E fn \in AgentFns : RunAgentReturn(r, fn)
        \/ \E fn \in AgentFns : RunAgentRaise(r, fn)
        \/ CombineTake(r)
        \/ \E i \in 1..CombineWorkers : CombineCollect(r, i)
        \/ Done(r)
        \/ Timeout(r)

\* One run, with the invocations of combine_results interleaved at their
\* first await.
SpecSteps == InitDup /\ [][NextSteps]_vars

(***************************************************************************)
(* The SignalEvent constructor (agents/_signal.py), on its own.            *)
(***************************************************************************)
\* Values a caller (the structured language model, parsing the answer of
\* the service) may pass as final_verdict: the four of the Literal and two
\* strings that are not in it.
VerdictCandidates == Verdicts \cup { "Buy", "" }

\* Integers a caller may pass as confidence, inside and outside 0..100.
ConfidenceCandidates == { -1, 0, 50, 100, 101, 150 }

SignalArgs ==
    [ agent : LLMAgentField, final_verdict : VerdictCandidates,
      confidence : ConfidenceCandidates, explanation : { "IBM" } ]

\* The validation pydantic derives from the field annotations of
\* SignalEvent: final_verdict must be a member of the Literal, confidence
\* must be an int.  The annotation of confidence carries no range.
ValidSignal(args) ==
    /\ args.final_verdict \in Verdicts
    /\ args.confidence \in Int

InitSignal ==
    /\ InitWorkflow
    /\ tickers = << "IBM" >>
    /\ InitClientIdle
    /\ InitSubIdle
    /\ ctor \in [ args : SignalArgs, out : { "none" } ]

\* SignalEvent(agent=..., final_verdict=..., confidence=..., explanation=...):
\* the event is made, or the constructor raises ValidationError.
ConstructSignal ==
    /\ ctor.out = "none"
    /\ ctor' = [ ctor EXCEPT !.out = IF ValidSignal(ctor.args) THEN "accepted"
                                                              ELSE "rejected" ]
    /\ UNCHANGED << wfVars, pool, clVars, subVars >>

SpecSignal == InitSignal /\ [][ConstructSignal]_vars

(***************************************************************************)
(* AlphaVantageClient._apply_filter (tools/alpha.py:113-146), on its own,  *)
(* applied to a TickerData as the response models build it.                *)
(***************************************************************************)
Dates == 1..MaxDate

\* A value of an end_date argument: a day before, among or after the dates.
EndDates == 0..MaxDate

\* The lists of at most MaxLen reports with a date each (fiscal_date_ending:
\* date of cash_flow.py:12,112 and earnings.py:12,27; transaction_date of
\* insider.py:13), in any order.
DateReports ==
    UNION { [ 1..n -> [ date : Dates, typ : { "date" } ] ] : n \in 0..MaxLen }

\* balance_sheet.py:11,171: fiscal_date_ending of a balance sheet report is
\* declared str, so the report holds the text of the date.
AsStr(list) == [ i \in 1..Len(list) |-> [ list[i] EXCEPT !.typ = "str" ] ]

\* An insider transaction whose transactionDate is "None" or "".
NoneTx == [ date |-> 0, typ |-> "none" ]

\* InsiderTransactionsResponse._remove_without_date (insider.py:45-47).
RemoveWithoutDate(v) == SelectSeq(v, LAMBDA x : x.typ # "none")

\* The attributes _apply_filter assigns, in the order of its statements.
FilterOrder ==
    << "cf_annual", "cf_quarterly", "bs_annual", "bs_quarterly",
       "ea_annual", "ea_quarterly", "insider" >>

\* A TickerData: its seven lists of reports; cf_quarterly_none tells that
\* cash_flow.quarterly_reports is None (then cf_quarterly is << >>).
TickerDataOf(reports, cfqNone, bsReports, insiderRaw) ==
    [ cf_annual |-> reports,
      cf_quarterly |-> IF cfqNone THEN << >> ELSE reports,
      cf_quarterly_none |-> cfqNone,
      bs_annual |-> AsStr(bsReports),
      bs_quarterly |-> AsStr(bsReports),
      ea_annual |-> reports,
      ea_quarterly |-> reports,
      insider |-> RemoveWithoutDate(insiderRaw) ]

\* r.fiscal_date_ending <= end_date raises TypeError unless the attribute is
\* a date: a str and a date do not compare, nor do None and a date.
Comparable(list) == \A i \in 1..Len(list) : list[i].typ = "date"

\* [r for r in list if r.fiscal_date_ending <= end_date]
KeepUpTo(list, end) == SelectSeq(list, LAMBDA x : x.date <= end)

\* The statements of _apply_filter from the i-th on: each list comprehension
\* either raises TypeError, which leaves the function with the lists before it
\* already assigned, or is assigned to its attribute.  The test of line 117
\* skips a None (or empty) quarterly cash-flow list, which the comprehension
\* would leave empty anyway.
RECURSIVE FilterFrom(_, _, _)
FilterFrom(data, end, i) ==
    IF i > Len(FilterOrder)
    THEN [ raised |-> FALSE, data |-> data ]
    ELSE LET f == FilterOrder[i]
         IN  IF ~Comparable(data[f])
             THEN [ raised |-> TRUE, data |-> data ]
             ELSE FilterFrom([ data EXCEPT ![f] = KeepUpTo(@, end) ], end, i + 1)

\* _apply_filter(data, end_date): the filtered TickerData, or TypeError.
ApplyFilter(data, end) == FilterFrom(data, end, 1)

InitFilter ==
    /\ InitWorkflow
    /\ tickers = << "IBM" >>
    /\ InitCtorIdle
    /\ InitClientIdle
    /\ comb = [ r \in Runs |-> << >> ]
    /\ app = NoApp
    /\ \E reports \in DateReports, cfqNone \in BOOLEAN, withSheets \in BOOLEAN,
          withNoneTx \in BOOLEAN, d1 \in EndDates, d2 \in EndDates :
          flt = [ NoFlt EXCEPT
                    !.pc = "new",
                    !.data = TickerDataOf(reports, cfqNone,
                                          IF withSheets THEN reports ELSE << >>,
                                          IF withNoneTx THEN Append(reports, NoneTx)
                                                        ELSE reports),
                    !.d1 = d1, !.d2 = d2 ]

\* self._apply_filter(data, d1)
FilterOnce ==
    /\ flt.pc = "new"
    /\ flt' = [ flt EXCEPT !.pc = "once", !.once = ApplyFilter(flt.data, flt.d1) ]
    /\ UNCHANGED << wfVars, pool, ctor, clVars, comb, app >>

\* self._apply_filter(result, d2) on the result of the first call.
FilterTwice ==
    /\ flt.pc = "once"
    /\ ~flt.once.raised
    /\ flt' = [ flt EXCEPT !.pc = "twice",
                           !.twice = ApplyFilter(flt.once.data, flt.d2) ]
    /\ UNCHANGED << wfVars, pool, ctor, clVars, comb, app >>

NextFilter ==
    \/ FilterOnce
    \/ FilterTwice

SpecFilter == InitFilter /\ [][NextFilter]_vars

(***************************************************************************)
(* append(context, key, value) (utils/context.py), on its own: the calls   *)
(* of several tasks on one key of one Context.  A list is an object: the   *)
(* store and the local variable values hold the number of a list of heap.  *)
(***************************************************************************)
\* The value argument of call a; the calls are numbered in the order they are
\* made, and the value a key held before is 0.
AppendValue(a) == a

\* What the key may hold before the first call: nothing, a str, a list.
InitAppend ==
    /\ InitWorkflow
    /\ tickers = << "IBM" >>
    /\ InitCtorIdle
    /\ InitClientIdle
    /\ comb = [ r \in Runs |-> << >> ]
    /\ flt = NoFlt
    /\ \E yields \in BOOLEAN, kind \in { "unset", "str", "list" } :
         app = [ yields |-> yields,
                 before |-> IF kind = "unset" THEN << >> ELSE << 0 >>,
                 store |-> [ kind |-> kind, v |-> 0, id |-> IF kind = "list" THEN 1 ELSE 0 ],
                 heap |-> IF kind = "list" THEN << << 0 >> >> ELSE << >>,
                 calls |-> [ a \in Appenders |-> NoAppend ] ]

\* The calls that have started and not returned.
AppendInFlight == { a \in Appenders : app.calls[a].pc \in { "at_get", "at_set" } }

\* append is called and reaches "await context.get(key, [])" (line 5).  With
\* a Context whose get and set return without suspending, a call runs to its
\* end before the event loop runs another task.
AppendBegin(a) ==
    /\ app.calls[a].pc = "idle"
    /\ \A b \in Appenders : b < a => app.calls[b].pc # "idle"
    /\ app.yields \/ AppendInFlight = {}
    /\ app' = [ app EXCEPT !.calls[a].pc = "at_get" ]
    /\ UNCHANGED << wfVars, pool, ctor, clVars, comb, flt >>

\* Lines 5-12, from the value context.get gives to "await context.set(key,
\* values)": the list stored under the key, or the default [] of this call,
\* or [values] for a value that is not a list; then values.append(value),
\* which changes the list object itself.
AppendRead(a) ==
    /\ app.calls[a].pc = "at_get"
    /\ LET n == Len(app.heap) + 1
       IN  app' = CASE app.store.kind = "list" ->
                         [ app EXCEPT !.heap[app.store.id] = Append(@, AppendValue(a)),
                                      !.calls[a] = [ pc |-> "at_set", id |-> app.store.id ] ]
                    [] app.store.kind = "unset" ->
                         [ app EXCEPT !.heap = Append(@, << AppendValue(a) >>),
                                      !.calls[a] = [ pc |-> "at_set", id |-> n ] ]
                    [] app.store.kind = "str" ->
                         [ app EXCEPT !.heap = Append(@, << app.store.v, AppendValue(a) >>),
                                      !.calls[a] = [ pc |-> "at_set", id |-> n ] ]
    /\ UNCHANGED << wfVars, pool, ctor, clVars, comb, flt >>

\* context.set(key, values) stores the list of this call, and append returns.
AppendWrite(a) ==
    /\ app.calls[a].pc = "at_set"
    /\ app' = [ app EXCEPT !.store = [ kind |-> "list", v |-> 0, id |-> app.calls[a].id ],
                           !.calls[a].pc = "done" ]
    /\ UNCHANGED << wfVars, pool, ctor, clVars, comb, flt >>

NextAppend ==
    \E a \in Appenders :
        \/ AppendBegin(a)
        \/ AppendRead(a)
        \/ AppendWrite(a)

SpecAppend == InitAppend /\ [][NextAppend]_vars

(***************************************************************************)
(* AlphaVantageClient.aget_ticker_data (tools/alpha.py), on its own: the   *)
(* calls of several tasks on one client for one symbol, with the cache     *)
(* directory set.  An action is one stretch of a coroutine between two     *)
(* suspensions: the wait for the lock and the wait for a response.         *)
(***************************************************************************)
\* config.cache_timeout, in units of the model clock.
CacheTimeout == 2

\* The response_model argument of the _fetch call of each endpoint.
ResponseModel(e) ==
    CASE e = "OVERVIEW"             -> "OverviewResponse"
      [] e = "BALANCE_SHEET"        -> "BalanceSheetResponse"
      [] e = "CASH_FLOW"            -> "CashFlowResponse"
      [] e = "EARNINGS"             -> "EarningsResponse"
      [] e = "INSIDER_TRANSACTIONS" -> "InsiderTransactionsResponse"

\* seconds_since_creation(path) = time.time() - st_ctime.
SecondsSinceCreation(f) == now - f.ctime

FreshInclusive(f) == f.exists /\ SecondsSinceCreation(f) <= CacheTimeout

\* path.exists() and seconds_since_creation(path) < self.config.cache_timeout
Fresh(f) == f.exists /\ SecondsSinceCreation(f) < CacheTimeout

CachedAfterLockNever == FALSE

\* aget_ticker_data, lines 60-64: the second look at the ticker cache, made
\* with the lock held.
CachedAfterLock == Fresh(tcache)

ValidatesAlways(valid) == TRUE

\* response_model(**data) raises ValidationError unless the payload has the
\* shape of the model.
Validates(valid) == valid

\* What the service may answer to a request: a payload of the shape of the
\* endpoint's model, a payload of another shape, a payload with the key
\* "Information", an HTTP error status.
ResponseKinds == { "valid", "invalid", "information", "http_error" }

RaisedReq(why) == [ st |-> "raised", model |-> "", valid |-> FALSE, why |-> why ]

\* _fetch, lines 155-183: a fresh endpoint cache file is read and validated;
\* otherwise the request is sent and the coroutine waits for the response.
FetchBegin(e) ==
    IF Fresh(ecache[e])
    THEN IF Validates(ecache[e].valid)
         THEN [ st |-> "ok", model |-> ResponseModel(e), valid |-> ecache[e].valid,
                why |-> "none" ]
         ELSE RaisedReq("cached_invalid")
    ELSE [ st |-> "pending", model |-> "", valid |-> FALSE, why |-> "none" ]

\* _fetch, lines 184-203: what the coroutine returns or raises for a response.
FetchEnd(e, kind) ==
    IF kind \in { "information", "http_error" }
    THEN RaisedReq(kind)
    ELSE IF Validates(kind = "valid")
         THEN [ st |-> "ok", model |-> ResponseModel(e), valid |-> (kind = "valid"),
                why |-> "none" ]
         ELSE RaisedReq(kind)

WritesEndpointCacheValidated(kind) == kind = "valid"

WritesEndpointCacheAlways(kind) == TRUE

\* _fetch, lines 191-195: the payload is written to the endpoint cache file
\* unless raise_for_status or the "Information" test raised before.
WritesEndpointCache(kind) == kind \in { "valid", "invalid" }

\* aget_ticker_data, lines 69-92: the five _fetch coroutines are started and
\* gathered; each runs to its first suspension.
StartRound(c) ==
    LET r0 == [ e \in Endpoints |-> FetchBegin(e) ]
        n == Cardinality({ e \in Endpoints : r0[e].st = "pending" })
    IN  /\ req' = r0
        /\ call' = [ call EXCEPT ![c] = [ @ EXCEPT !.pc = "fetching", !.reqs = @ + n ] ]
        /\ lock' = [ lock EXCEPT !.holder = c ]

CacheContentFiltered(full, end) == ApplyFilter(full, end).data

\* ticker_cache.write_text(full.model_dump_json(indent=2)), line 103: the
\* file gets the TickerData as built from the responses; _apply_filter is
\* called after it, in line 104.
CacheContent(full, end) == full

\* return self._apply_filter(full, end_date) of call c: the call ends as how
\* when the filter returns, and with the TypeError of the filter otherwise.
ReturnOf(c, data, how) ==
    [ call[c] EXCEPT !.pc = "done",
                     !.out = IF ApplyFilter(data, endDate[c]).raised
                             THEN "filter_error" ELSE how ]

ReleaseToOnReturn(c, newc) ==
    IF newc.out = "raised"
    THEN /\ call' = [ call EXCEPT ![c] = newc ]
         /\ UNCHANGED lock
    ELSE IF lock.waiters = << >>
         THEN /\ lock' = NoLock
              /\ call' = [ call EXCEPT ![c] = newc ]
         ELSE LET w == Head(lock.waiters)
              IN  /\ lock' = [ holder |-> w, waiters |-> Tail(lock.waiters) ]
                  /\ call' = [ call EXCEPT ![c] = newc, ![w] = [ @ EXCEPT !.pc = "woken" ] ]

\* The exit of "async with lock" of call c, which ends as newc: the lock goes
\* to the caller that has waited longest, if there is one.
ReleaseTo(c, newc) ==
    IF lock.waiters = << >>
    THEN /\ lock' = NoLock
         /\ call' = [ call EXCEPT ![c] = newc ]
    ELSE LET w == Head(lock.waiters)
         IN  /\ lock' = [ holder |-> w, waiters |-> Tail(lock.waiters) ]
             /\ call' = [ call EXCEPT ![c] = newc, ![w] = [ @ EXCEPT !.pc = "woken" ] ]

\* aget_ticker_data, lines 59-92, from the lock acquired to the next
\* suspension or return.
AfterLock(c) ==
    IF CachedAfterLock
    THEN /\ ReleaseTo(c, ReturnOf(c, tdata, "cached"))
         /\ ret' = [ ret EXCEPT ![c] = ApplyFilter(tdata, endDate[c]) ]
         /\ UNCHANGED req
    ELSE /\ StartRound(c)
         /\ UNCHANGED ret

\* The reports the service holds for the symbol, the latest first.
ServiceReports == [ i \in 1..MaxDate |-> [ date |-> MaxDate + 1 - i, typ |-> "date" ] ]

\* end_date: date = date.today(), the default the analysts call with: no
\* report is later.
Today == MaxDate

\* The calls of the analysts (no end_date given) for a symbol without balance
\* sheet reports, on a cache directory in any state.
InitClient ==
    /\ InitWorkflow
    /\ tickers = << "IBM" >>
    /\ InitCtorIdle
    /\ InitSubIdle
    /\ now = 0
    /\ \/ /\ tcache = [ exists |-> TRUE, ctime |-> 0, valid |-> TRUE ]
          /\ ecache = [ e \in Endpoints |-> [ exists |-> TRUE, ctime |-> 0, valid |-> TRUE ] ]
       \/ /\ tcache = NoFile
          /\ ecache \in [ Endpoints ->
                            { NoFile, [ exists |-> TRUE, ctime |-> 0, valid |-> TRUE ],
                              [ exists |-> TRUE, ctime |-> 0, valid |-> FALSE ] } ]
    /\ call = [ c \in Callers |-> NoCall ]
    /\ lock = NoLock
    /\ req = [ e \in Endpoints |-> NoReq ]
    /\ svc = TickerDataOf(ServiceReports, FALSE, << >>, ServiceReports)
    /\ endDate = [ c \in Callers |-> Today ]
    /\ tdata = IF tcache.exists THEN svc ELSE NoData
    /\ ret = [ c \in Callers |-> NoRet ]

\* The calls of a symbol with or without balance sheet reports, each with an
\* end_date of its own, on an empty cache directory.
InitClientData ==
    /\ InitWorkflow
    /\ tickers = << "IBM" >>
    /\ InitCtorIdle
    /\ InitSubIdle
    /\ now = 0
    /\ tcache = NoFile
    /\ ecache = [ e \in Endpoints |-> NoFile ]
    /\ call = [ c \in Callers |-> NoCall ]
    /\ lock = NoLock
    /\ req = [ e \in Endpoints |-> NoReq ]
    /\ \E withSheets \in BOOLEAN :
         svc = TickerDataOf(ServiceReports, FALSE,
                            IF withSheets THEN ServiceReports ELSE << >>,
                            ServiceReports)
    /\ endDate \in [ Callers -> { 1, Today } ]
    /\ tdata = NoData
    /\ ret = [ c \in Callers |-> NoRet ]

\* aget_ticker_data from its call to its first suspension or return: the
\* first look at the ticker cache (lines 46-56), then the lock (58-59).  The
\* calls are numbered in the order they are made.
ClientCall(c) ==
    /\ call[c].pc = "idle"
    /\ \A d \in Callers : d < c => call[d].pc # "idle"
    /\ IF Fresh(tcache)
       THEN /\ call' = [ call EXCEPT ![c] = ReturnOf(c, tdata, "cached") ]
            /\ ret' = [ ret EXCEPT ![c] = ApplyFilter(tdata, endDate[c]) ]
            /\ UNCHANGED << lock, req >>
       ELSE IF lock.holder = 0
            THEN AfterLock(c)
            ELSE /\ lock' = [ lock EXCEPT !.waiters = Append(@, c) ]
                 /\ call' = [ call EXCEPT ![c] =
                                 [ @ EXCEPT !.pc = "waiting", !.waited = TRUE ] ]
                 /\ UNCHANGED << req, ret >>
    /\ UNCHANGED << now, tcache, ecache, svc, endDate, tdata >>
    /\ UNCHANGED << wfVars, pool, ctor, subVars >>

\* A caller that waited for the lock has got it.
ClientResume(c) ==
    /\ call[c].pc = "woken"
    /\ lock.holder = c
    /\ AfterLock(c)
    /\ UNCHANGED << now, tcache, ecache, svc, endDate, tdata >>
    /\ UNCHANGED << wfVars, pool, ctor, subVars >>

\* _fetch after client.get: the response of the service to the request of
\* endpoint e has arrived.
ClientResponse(e, kind) ==
    /\ lock.holder # 0
    /\ call[lock.holder].pc = "fetching"
    /\ req[e].st = "pending"
    /\ req' = [ req EXCEPT ![e] = FetchEnd(e, kind) ]
    /\ ecache' = IF WritesEndpointCache(kind)
                 THEN [ ecache EXCEPT ![e] = [ exists |-> TRUE, ctime |-> now,
                                               valid |-> (kind = "valid") ] ]
                 ELSE ecache
    /\ UNCHANGED << now, tcache, call, lock, svc, endDate, tdata, ret >>
    /\ UNCHANGED << wfVars, pool, ctor, subVars >>

\* aget_ticker_data after asyncio.gather (lines 90-104): the first exception
\* of a _fetch leaves the call, with the requests still pending dropped as
\* the httpx client is closed; with all _fetch returned the ticker cache
\* file is written and the data filtered and returned.  Either way the lock
\* is released.
ClientRoundEnd(c) ==
    /\ lock.holder = c
    /\ call[c].pc = "fetching"
    /\ IF \E e \in Endpoints : req[e].st = "raised"
       THEN /\ ReleaseTo(c, [ call[c] EXCEPT !.pc = "done", !.out = "raised" ])
            /\ UNCHANGED << tcache, tdata, ret >>
       ELSE /\ \A e \in Endpoints : req[e].st = "ok"
            /\ tcache' = [ exists |-> TRUE, ctime |-> now, valid |-> TRUE ]
            /\ tdata' = CacheContent(svc, endDate[c])
            /\ ret' = [ ret EXCEPT ![c] = ApplyFilter(svc, endDate[c]) ]
            /\ ReleaseTo(c, ReturnOf(c, svc, "fetched"))
    /\ req' = [ e \in Endpoints |-> NoReq ]
    /\ UNCHANGED << now, ecache, svc, endDate >>
    /\ UNCHANGED << wfVars, pool, ctor, subVars >>

\* Time passes.
ClientTick ==
    /\ now < MaxTime
    /\ now' = now + 1
    /\ UNCHANGED << tcache, ecache, call, lock, req, svc, endDate, tdata, ret >>
    /\ UNCHANGED << wfVars, pool, ctor, subVars >>

NextClient ==
    \/ \E c \in Callers : ClientCall(c)
    \/ \E c \in Callers : ClientResume(c)
    \/ \E e \in Endpoints, kind \in ResponseKinds : ClientResponse(e, kind)
    \/ \E c \in Callers : ClientRoundEnd(c)
    \/ ClientTick

SpecClient == InitClient /\ [][NextClient]_vars

SpecClientData == InitClientData /\ [][NextClient]_vars

(***************************************************************************)
(* The lock of aget_ticker_data under the scheduling of the event loop.    *)
(***************************************************************************)
\* The calls of the analysts (no end_date given) for a symbol with or without
\* balance sheet reports, on an empty cache directory.
InitClientLock ==
    /\ InitClientData
    /\ endDate = [ c \in Callers |-> Today ]

\* The event loop runs every coroutine that is ready, and every request ends:
\* with a response, or with the exception of the timeout the httpx client is
\* built with (line 69).
ClientFairness ==
    /\ \A c \in Callers : WF_vars(ClientResume(c))
    /\ \A c \in Callers : WF_vars(ClientRoundEnd(c))
    /\ WF_vars(\E e \in Endpoints, kind \in ResponseKinds : ClientResponse(e, kind))

SpecClientLock == InitClientLock /\ [][NextClient]_vars /\ ClientFairness

(***************************************************************************)
(* Properties.                                                             *)
(***************************************************************************)
\* Number of SignalEvents of a run that combine_results has consumed.
Processed(r) == noneCount[r] + aggCount[r]

\* The analysts' items of a combined result.
AnalystEntries(d) == { p \in d : p[1] # NAME("risk_manager_agent") }

\* C1: barrier correctness.  When the N SignalEvents of a run have been
\* emitted and delivered to combine_results, the aggregation has been entered
\* exactly once, with a list of length N that holds exactly the N emitted
\* events, whatever their order; it is never entered more than once.
BarrierCorrectness ==
    \A r \in Runs :
        /\ aggCount[r] <= 1
        /\ (Cardinality(emitted[r]) = Len(ALL_AGENTS) /\ Processed(r) = Len(ALL_AGENTS))
              => /\ aggCount[r] = 1
                 /\ Len(rmInput[r]) = Len(ALL_AGENTS)
                 /\ SeqToSet(rmInput[r]) = emitted[r]

\* A run that aggregated N events which arrived in another order than the
\* order of ALL_AGENTS.
BarrierWitness ==
    \E r \in Runs :
        /\ aggCount[r] = 1
        /\ Processed(r) = Len(ALL_AGENTS)
        /\ Len(rmInput[r]) = Len(ALL_AGENTS)
        /\ rmInput[r][1].agent # NAME(ALL_AGENTS[1])

\* C2: no premature aggregation.  The value stored under num_agents is N, the
\* number of analysts, and while fewer than N SignalEvents of a run have been
\* collected, the risk-manager pass has not been invoked, no report has been
\* written by the run, no StopEvent has been emitted, the run has no result,
\* and every invocation of combine_results so far returned None.
NoPrematureAggregation ==
    \A r \in Runs :
        /\ "num_agents" \in DOMAIN ctx[r] => ctx[r]["num_agents"] = Len(ALL_AGENTS)
        /\ Processed(r) < Len(ALL_AGENTS)
            => /\ aggCount[r] = 0
               /\ rmInput[r] = << >>
               /\ \A t \in DOMAIN report : report[t].by # r
               /\ ~stopEv[r].sent
               /\ phase[r] # "done"
               /\ result[r] = {}
               /\ noneCount[r] = Processed(r)

\* N-1 events collected, each answered with None, and the run still waits.
PrematureWitness ==
    \E r \in Runs :
        /\ phase[r] = "running"
        /\ Len(buffer[r]) = Len(ALL_AGENTS) - 1
        /\ noneCount[r] = Len(ALL_AGENTS) - 1
        /\ aggCount[r] = 0

RunIsolation ==
    \A r \in BatchRuns :
        /\ \A fn \in AgentFns :
             /\ task[r][fn].ticker \in { "", tickers[r] }
             /\ task[r][fn].llm \in { 0, r }
             /\ task[r][fn].client \in { 0, r }
        /\ "ticker" \in DOMAIN ctx[r]
             => /\ ctx[r]["ticker"] = tickers[r]
                /\ ctx[r]["llm"] = r
                /\ ctx[r]["alpha_client"] = r
        /\ SeqToSet(sigQueue[r]) \cup SeqToSet(buffer[r]) \cup SeqToSet(rmInput[r])
             \subseteq emitted[r]
        /\ \A ev \in emitted[r] : ev.explanation = tickers[r]
        /\ Len(buffer[r]) < Len(ALL_AGENTS)
        /\ \A t \in DOMAIN report :
             report[t].by = r
               => /\ t = tickers[r]
                  /\ \A i \in 2..Len(report[t].content) :
                       report[t].content[i] \in emitted[r]
        /\ AnalystEntries(result[r]) \subseteq
             { << NAME(fn), AnalystVerdict(fn, tickers[r]) >> : fn \in AgentFns }

\* Both runs are in progress and each has collected some of its events.
IsolationWitness ==
    /\ tickers[1] # tickers[2]
    /\ phase[1] = "running"
    /\ phase[2] = "running"
    /\ buffer[1] # << >>
    /\ buffer[2] # << >>

\* One analyst of the run never completes and all the others have returned
\* their SignalEvent.
OneHung(r) ==
    /\ phase[r] = "running"
    /\ \E fn \in AgentFns :
         /\ task[r][fn].pc = "hung"
         /\ \A g \in AgentFns \ { fn } : task[r][g].pc = "returned"

\* C5: timeout.  A run in which one analyst never completes, the others
\* having returned, ends with the timeout error: it does not stay at the
\* barrier forever, and a run that timed out hands no result to its caller,
\* nothing of it is printed.
TimeoutEndsStuckRun ==
    \A r \in Runs :
        /\ OneHung(r) ~> (phase[r] = "timeout")
        /\ [](phase[r] = "timeout" => (result[r] = {} /\ Len(printed) < r))
        /\ [](OneHung(r) => (aggCount[r] = 0 /\ ~stopEv[r].sent))

\* A run that timed out at the barrier: N-1 events collected, one analyst
\* cancelled by the timeout.
TimeoutWitness ==
    \E r \in Runs :
        /\ phase[r] = "timeout"
        /\ noneCount[r] = Len(ALL_AGENTS) - 1
        /\ Cardinality({ fn \in AgentFns : task[r][fn].pc = "cancelled" }) = 1
        /\ Cardinality({ fn \in AgentFns : task[r][fn].pc = "returned" })
             = Len(ALL_AGENTS) - 1

\* C6: task-failure containment.  When an analyst raises inside run_agent the
\* run is not ended by it and no sibling analyst is cancelled.
TaskFailureContained ==
    \A r \in Runs :
        raisedBy[r] \in AgentFns
            => /\ phase[r] # "error"
               /\ \A g \in AgentFns : task[r][g].pc # "cancelled"

\* C7: when the data fetch raises for every analyst of a run, the run is
\* never completed: it stays unfinished or ends with an error or a timeout,
\* no SignalEvent of it exists, no StopEvent is emitted, the caller gets no
\* combined result and nothing is printed for it.
FetchFailureGivesNoResult ==
    \A r \in BatchRuns :
        FetchFails(tickers[r])
            => /\ phase[r] \in { "new", "submitted", "running", "error", "timeout" }
               /\ emitted[r] = {}
               /\ aggCount[r] = 0
               /\ ~stopEv[r].sent
               /\ result[r] = {}
               /\ Len(printed) < r

\* A run whose data fetch fails has ended with the error of an analyst.
FetchFailureWitness ==
    \E r \in BatchRuns :
        /\ FetchFails(tickers[r])
        /\ phase[r] = "error"
        /\ raisedBy[r] \in AgentFns

\* C8: aggregation failure.  When the risk-manager pass raises after the
\* barrier has closed, the run ends with an error: no StopEvent is emitted,
\* the caller gets no result (none of the N collected results), no report is
\* written by the run and nothing is printed for it.
AggregationFailureFailsRun ==
    \A r \in Runs :
        raisedBy[r] = "risk_manager_agent"
            => /\ phase[r] = "error"
               /\ aggCount[r] = 1
               /\ ~stopEv[r].sent
               /\ result[r] = {}
               /\ \A t \in DOMAIN report : report[t].by # r
               /\ Len(printed) < r

\* The risk-manager pass raised on a full list of N results.
AggregationFailureWitness ==
    \E r \in Runs :
        /\ raisedBy[r] = "risk_manager_agent"
        /\ Len(rmInput[r]) = Len(ALL_AGENTS)
        /\ phase[r] = "error"

\* C9: the combined result of a completed run has exactly N+1 items with
\* N+1 distinct agent names: one per analyst, with that analyst's verdict,
\* and one of the risk manager, whose name is no analyst's name.
CombinedResultEntries ==
    \A r \in BatchRuns :
        phase[r] = "done"
            => /\ Cardinality(result[r]) = Len(ALL_AGENTS) + 1
               /\ Cardinality(DictKeys(result[r])) = Len(ALL_AGENTS) + 1
               /\ \A i \in 1..Len(rmInput[r]) :
                    << rmInput[r][i].agent, rmInput[r][i].final_verdict >> \in result[r]
               /\ \A fn \in AgentFns :
                    << NAME(fn), AnalystVerdict(fn, tickers[r]) >> \in result[r]
               /\ \E p \in result[r] :
                    /\ p[1] = NAME("risk_manager_agent")
                    /\ p[1] \notin { NAME(fn) : fn \in AgentFns }
                    /\ p[2] \in Verdicts

\* A completed run whose events arrived in another order than ALL_AGENTS.
CombinedResultWitness ==
    \E r \in BatchRuns :
        /\ phase[r] = "done"
        /\ Cardinality(result[r]) = Len(ALL_AGENTS) + 1
        /\ rmInput[r][1].agent # NAME(ALL_AGENTS[1])

VerdictDomain ==
    ctor.out = "accepted"
        => /\ ctor.args.final_verdict \in Verdicts
           /\ ctor.args.confidence \in 0..100

\* C12: worker-pool bound.  At every instant at most len(ALL_AGENTS)
\* invocations of run_agent of a run are in flight, and an invocation starts
\* only in a state with fewer than that in flight: a StartAgentEvent that
\* finds all the workers busy stays queued until one of them has finished.
PoolBound ==
    /\ [](\A r \in Runs : InFlight(r) <= Len(ALL_AGENTS))
    /\ [][\A r \in Runs :
            ( \/ pool'[r].inflight > pool[r].inflight
              \/ \E fn \in AgentFns : /\ task[r][fn].pc = "queued"
                                      /\ task'[r][fn].pc = "fetching" )
                => InFlight(r) < Len(ALL_AGENTS)]_vars

\* All the workers of run_agent are busy and a StartAgentEvent waits.
PoolWitness ==
    \E r \in Runs :
        /\ InFlight(r) = Len(ALL_AGENTS)
        /\ pool[r].queued > 0

\* C13: a run that fails because its request is malformed (here: a ticker
\* the data service does not know) has failed before the fan-out: none of its
\* StartAgentEvents has been sent, no analyst has been started, and the
\* error is not the error of an analyst.
MalformedRequestRejectedBeforeFanOut ==
    \A r \in BatchRuns :
        (FetchFails(tickers[r]) /\ phase[r] = "error")
            => /\ \A fn \in AgentFns : task[r][fn].pc = "idle"
               /\ raisedBy[r] \notin AgentFns

\* C14: late results are discarded.  After a run has ended (error, timeout or
\* completion) none of its analysts is still queued or in flight and none of
\* its events is still to be delivered: the runtime cancelled them, so no
\* result of the run is produced later.  Every event queued, buffered,
\* aggregated or counted for a run was returned by an analyst of that run
\* for that run's ticker, also in a run started on the same Workflow object
\* after an abandoned one.
LateResultsDiscarded ==
    \A r \in BatchRuns :
        /\ phase[r] \in { "done", "error", "timeout" }
             => /\ \A fn \in AgentFns :
                     task[r][fn].pc \notin { "queued", "fetching", "hung" }
                /\ sigQueue[r] = << >>
        /\ SeqToSet(sigQueue[r]) \cup SeqToSet(buffer[CtxOf(r)]) \cup SeqToSet(rmInput[r])
             \subseteq emitted[r]
        /\ \A ev \in emitted[r] : ev.explanation = tickers[r]
        /\ Processed(r) <= Cardinality(emitted[r])

\* A run was abandoned with analysts in flight, and the next run on the same
\* Workflow object has collected results.
LateResultsWitness ==
    \E r1, r2 \in BatchRuns :
        /\ r1 < r2
        /\ phase[r1] \in { "error", "timeout" }
        /\ \E fn \in AgentFns : task[r1][fn].pc = "cancelled"
        /\ phase[r2] = "running"
        /\ buffer[CtxOf(r2)] # << >>

\* C15: batch processing.  The runs of a batch execute one after another in
\* list order: a run is started only after the run of the ticker before it
\* has returned and its result has been printed, no two runs are in progress
\* at the same time, the results are printed in list order, and a run that
\* has not yet reached its start step has an empty Context (no expected
\* count), an empty result buffer and no queued event.
BatchSequential ==
    /\ \A r1, r2 \in BatchRuns :
         ( /\ phase[r1] \in { "submitted", "running" }
           /\ phase[r2] \in { "submitted", "running" } ) => r1 = r2
    /\ \A r \in BatchRuns :
         /\ (r > 1 /\ phase[r] # "new")
              => /\ phase[r - 1] = "done"
                 /\ Len(printed) >= r - 1
         /\ phase[r] \in { "new", "submitted" }
              => /\ ctx[CtxOf(r)] = << >>
                 /\ buffer[CtxOf(r)] = << >>
                 /\ sigQueue[r] = << >>
                 /\ aggCount[r] = 0
                 /\ noneCount[r] = 0
    /\ Len(printed) <= Len(tickers)
    /\ \A i \in 1..Len(printed) : printed[i] = << tickers[i], result[i] >>

\* The second run of a batch collects its results after the first run has
\* completed and been printed.
BatchWitness ==
    /\ Len(tickers) = 2
    /\ phase[1] = "done"
    /\ Len(printed) = 1
    /\ phase[2] = "running"
    /\ buffer[CtxOf(2)] # << >>

\* A call that has performed a fetch round of its own, or is performing it.
PerformsRound(c) ==
    call[c].pc = "fetching" \/ call[c].out \in { "fetched", "raised" }

AnalystKeys(fn) == { "ticker", LlmKey(fn), "alpha_client" }

StartSeedsContext ==
    \A r \in BatchRuns :
        (\E fn \in AgentFns : task[r][fn].pc # "idle")
            => /\ { "llm", "llm_struct", "alpha_client", "ticker", "num_agents" }
                     \subseteq DOMAIN ctx[CtxOf(r)]
               /\ ctx[CtxOf(r)]["ticker"] = tickers[r]
               /\ \A fn \in AgentFns : task[r][fn].pc # "idle"
               /\ ctx[CtxOf(r)]["num_agents"] = Cardinality(AgentFns)
               /\ ctx[CtxOf(r)]["num_agents"] = Len(ALL_AGENTS)
               /\ \A fn \in AgentFns :
                    task[r][fn].pc \in { "fetching", "hung", "returned" }
                        => /\ task[r][fn].ticker = tickers[r]
                           /\ task[r][fn].llm = r
                           /\ task[r][fn].client = r

\* The start step has just run: the N StartAgentEvents are queued, no analyst
\* has started, and the Context holds the five keys.
StartWitness ==
    \E r \in BatchRuns :
        /\ phase[r] = "running"
        /\ \A fn \in AgentFns : task[r][fn].pc = "queued"
        /\ ctx[CtxOf(r)]["num_agents"] = Len(ALL_AGENTS)

\* C21: serialized step bodies.  With the invocations of combine_results
\* interleaved in every way their awaits allow, the append of an event to the
\* buffer and the comparison of the buffer with the expected count are one
\* stretch of code: no step ever finds N events in the buffer, every event is
\* in exactly one place (queued, held by a suspended invocation, or
\* collected), the aggregation is entered at most once, by the invocation
\* that collects the N-th event after N-1 invocations returned None, and it
\* gets exactly the N events the analysts returned.
StepsSerialized ==
    \A r \in BatchRuns :
        /\ Len(buffer[CtxOf(r)]) < Len(ALL_AGENTS)
        /\ aggCount[r] <= 1
        /\ aggCount[r] = 1
             => /\ noneCount[r] = Len(ALL_AGENTS) - 1
                /\ Len(rmInput[r]) = Len(ALL_AGENTS)
                /\ SeqToSet(rmInput[r]) = emitted[r]
        /\ aggCount[r] = 0 => Len(buffer[CtxOf(r)]) = noneCount[r] \/ phase[r] # "running"
        /\ phase[r] = "running"
             => Len(sigQueue[r]) + Len(comb[r]) + Processed(r) = Cardinality(emitted[r])
        /\ (Processed(r) = Len(ALL_AGENTS) /\ Cardinality(emitted[r]) = Len(ALL_AGENTS))
             => aggCount[r] = 1

\* The aggregation has been entered by the invocation that collected the
\* N-th event, here the event of the first analyst of ALL_AGENTS, while the
\* N-1 other invocations returned None.
StepsWitness ==
    \E r \in BatchRuns :
        /\ phase[r] = "running"
        /\ aggCount[r] = 1
        /\ noneCount[r] = Len(ALL_AGENTS) - 1
        /\ rmInput[r][Len(ALL_AGENTS)].agent = NAME(ALL_AGENTS[1])

\* C22: suspension points.  An analyst is suspended at its call of the data
\* fetch and again at its call of the reasoning service: a task that waits
\* for the data fetch does not reach the return of its SignalEvent in the
\* step in which it is resumed, the steps of other tasks can run between the
\* return of the fetch and the answer of the service.
SuspendsAtReasoning ==
    [][\A r \in Runs : \A fn \in AgentFns :
          task[r][fn].pc = "fetching" => task'[r][fn].pc # "returned"]_vars

\* C23: result order.  A SignalEvent enters the queue of combine_results when
\* its analyst returns, behind the events of the analysts that returned
\* before; combine_results buffers the events in the order it gets them; the
\* list handed to the risk manager is the buffer followed by the N-th event,
\* i.e. the N results in the order of their arrival; and the list written to
\* the report, from which the combined result is made, is the result of the
\* risk manager followed by that list, in that order.
ResultOrder ==
    /\ [](\A r \in BatchRuns :
            /\ report[tickers[r]].by = r
                 => /\ Len(report[tickers[r]].content) = Len(ALL_AGENTS) + 1
                    /\ report[tickers[r]].content[1].agent = NAME("risk_manager_agent")
                    /\ Tail(report[tickers[r]].content) = rmInput[r]
            /\ (stopEv[r].sent /\ report[tickers[r]].by = r)
                 => stopEv[r].result = DictFromList(report[tickers[r]].content)
            /\ stopEv[r].sent
                 => \E v \in Verdicts :
                       stopEv[r].result =
                         DictFromList(<< [ agent |-> NAME("risk_manager_agent"),
                                           final_verdict |-> v, confidence |-> 70,
                                           explanation |-> "" ] >> \o rmInput[r]))
    /\ [][\A r \in BatchRuns :
            /\ \A fn \in AgentFns :
                 (task[r][fn].pc = "fetching" /\ task'[r][fn].pc = "returned")
                     => /\ SubSeq(sigQueue'[r], 1, Len(sigQueue[r])) = sigQueue[r]
                        /\ Len(sigQueue'[r]) = Len(sigQueue[r]) + 1
                        /\ sigQueue'[r][Len(sigQueue'[r])].agent = NAME(fn)
            /\ noneCount'[r] # noneCount[r]
                 => buffer'[CtxOf(r)] = Append(buffer[CtxOf(r)], Head(sigQueue[r]))
            /\ aggCount'[r] # aggCount[r]
                 => rmInput'[r] = Append(buffer[CtxOf(r)], Head(sigQueue[r]))]_vars

\* A report has been written whose list is the result of the risk manager
\* followed by the analysts' results in an order of arrival that is not the
\* order of ALL_AGENTS.
ResultOrderWitness ==
    \E r \in BatchRuns :
        /\ report[tickers[r]].by = r
        /\ Tail(report[tickers[r]].content) = rmInput[r]
        /\ \E i \in 1..Len(rmInput[r]) : rmInput[r][i].agent # NAME(ALL_AGENTS[i])

\* C24: cache before validation.  _fetch writes the payload of a response to
\* the endpoint cache file before it validates it: a _fetch that raises on a
\* payload that fails the validation has left that payload in the file.  A
\* _fetch started while the file holds such a payload and is younger than
\* cache_timeout raises the validation error from the file and sends no
\* request: the requests of a fetch round are those of the endpoints
\* without a fresh file.
CacheBeforeValidation ==
    [][\A e \in Endpoints :
         /\ (req[e].st = "pending" /\ req'[e].st = "raised" /\ req'[e].why = "invalid")
              => ecache'[e] = [ exists |-> TRUE, ctime |-> now, valid |-> FALSE ]
         /\ ( /\ req[e].st = "none"
              /\ req'[e].st # "none"
              /\ ecache[e].exists
              /\ now - ecache[e].ctime < CacheTimeout
              /\ ~ecache[e].valid )
              => /\ req'[e].st = "raised"
                 /\ req'[e].why = "cached_invalid"
                 /\ ecache'[e] = ecache[e]
                 /\ \A c \in Callers :
                      call'[c].pc = "fetching" /\ call[c].pc # "fetching"
                          => call'[c].reqs - call[c].reqs =
                               Cardinality({ f \in Endpoints : req'[f].st = "pending" })]_vars

\* A _fetch has raised from the endpoint cache file that an earlier _fetch
\* of the model wrote (the clock has advanced since the start) with a payload
\* that fails the validation.
CacheBeforeValidationWitness ==
    \E e \in Endpoints :
        /\ req[e].st = "raised"
        /\ req[e].why = "cached_invalid"
        /\ ecache[e].ctime > 0
        /\ ~ecache[e].valid

\* C25: failed requests leave the cache alone.  A _fetch that raises on an
\* HTTP error status or on a payload with the key "Information" leaves the
\* endpoint cache file as it was (no file is created), and the call of
\* aget_ticker_data that gathered it raises and leaves the ticker cache file
\* as it was.
FailedRequestLeavesCache ==
    [][/\ \A e \in Endpoints :
            (req[e].st = "pending" /\ req'[e].st = "raised"
                /\ req'[e].why \in { "information", "http_error" })
                => /\ ecache'[e] = ecache[e]
                   /\ tcache' = tcache
       /\ \A c \in Callers :
            (call[c].pc = "fetching" /\ call'[c].pc = "done"
                /\ \E e \in Endpoints : req[e].why \in { "information", "http_error" })
                => /\ call'[c].out = "raised"
                   /\ tcache' = tcache
                   /\ ecache' = ecache]_vars

\* A _fetch has raised on an "Information" payload or an HTTP error of an
\* endpoint that had no cache file, after a call before it raised and released
\* the lock: there is still no file of that endpoint and no ticker cache file.
FailedRequestWitness ==
    /\ ~tcache.exists
    /\ \E c \in Callers : call[c].out = "raised" /\ call[c].reqs > 0
    /\ \E e \in Endpoints :
         /\ req[e].st = "raised"
         /\ req[e].why \in { "information", "http_error" }
         /\ ~ecache[e].exists

Min(a, b) == IF a <= b THEN a ELSE b

\* The reports of a list whose date is at most end, in the order of the list.
UpTo(list, end) ==
    LET idx == { i \in 1..Len(list) : list[i].date <= end }
        RECURSIVE Pick(_)
        Pick(i) == IF i > Len(list) THEN << >>
                   ELSE IF i \in idx THEN << list[i] >> \o Pick(i + 1) ELSE Pick(i + 1)
    IN  Pick(1)

\* C27: _apply_filter.  A call returns, and every list of the result holds
\* exactly the reports of the argument whose date is <= end_date, in their
\* order; a None quarterly cash-flow list stays None; a second call with the
\* same end_date changes nothing, and a call with d1 followed by a call with
\* d2 gives what one call with min(d1, d2) gives.
ApplyFilterKeepsUpTo ==
    /\ flt.pc \in { "once", "twice" }
         => /\ ~flt.once.raised
            /\ \A i \in 1..Len(FilterOrder) :
                 flt.once.data[FilterOrder[i]] = UpTo(flt.data[FilterOrder[i]], flt.d1)
            /\ flt.once.data.cf_quarterly_none = flt.data.cf_quarterly_none
    /\ flt.pc = "twice"
         => /\ ~flt.twice.raised
            /\ flt.d1 = flt.d2 => flt.twice = flt.once
            /\ flt.twice = ApplyFilter(flt.data, Min(flt.d1, flt.d2))

\* C26: the ticker cache holds the unfiltered data.  The ticker cache file is
\* written only at the end of a fetch round all of whose _fetch calls
\* returned, with the TickerData as built from the responses, whatever the
\* end_date of the call that writes it; every call that returns, from the
\* file or from its own round, returns that data filtered with its own
\* end_date, so a call served from the file with a later end_date gets the
\* reports the writing call left out of its own result.
CacheHoldsUnfiltered ==
    /\ [](/\ tcache.exists => tdata = svc
          /\ \A c \in Callers :
               /\ call[c].out \in { "cached", "fetched" }
                    => ret[c] = [ raised |-> FALSE,
                                  data |-> [ svc EXCEPT
                                     !.cf_annual = UpTo(@, endDate[c]),
                                     !.cf_quarterly = UpTo(@, endDate[c]),
                                     !.ea_annual = UpTo(@, endDate[c]),
                                     !.ea_quarterly = UpTo(@, endDate[c]),
                                     !.insider = UpTo(@, endDate[c]) ] ]
               /\ call[c].out = "filter_error" => ret[c].raised)
    /\ [][tcache' # tcache
            => /\ \A e \in Endpoints : req[e].st = "ok"
               /\ tdata' = svc
               /\ \E c \in Callers : call[c].pc = "fetching" /\ call'[c].pc = "done"]_vars

\* A call with an early end_date fetched and wrote the file, and a call with
\* a later end_date was served from the file and got more reports.
CacheHoldsUnfilteredWitness ==
    \E c1, c2 \in Callers :
        /\ call[c1].out = "fetched"
        /\ call[c2].out = "cached"
        /\ endDate[c1] < endDate[c2]
        /\ Len(ret[c1].data.cf_annual) < Len(ret[c2].data.cf_annual)
        /\ Len(ret[c2].data.cf_annual) = Len(tdata.cf_annual)

\* The callers between the entry and the exit of "async with lock".
InSection == { c \in Callers : call[c].pc \in { "woken", "fetching" } }

\* C28: the per-symbol lock.  At most one caller is inside "async with lock",
\* and the lock is held exactly while a caller is inside; whichever way the
\* holder leaves (a return from the cache, a round that raised, a round that
\* returned, a filter that raised), the lock goes to the caller that has
\* waited longest or becomes free; a caller woken after a round that raised
\* finds no fresh ticker cache and starts a fetch round of its own; a caller
\* that waits for the lock gets it in the end.
LockReleasedOnEveryExit ==
    /\ [](/\ Cardinality(InSection) <= 1
          /\ \A c \in Callers : c \in InSection <=> lock.holder = c
          /\ \A c \in Callers :
               call[c].pc = "waiting" <=> \E i \in 1..Len(lock.waiters) : lock.waiters[i] = c
          /\ lock.waiters # << >> => lock.holder # 0)
    /\ [][\A c \in Callers :
            /\ (c \in InSection /\ call'[c].pc = "done")
                 => IF lock.waiters = << >>
                    THEN lock' = NoLock
                    ELSE /\ lock' = [ holder |-> Head(lock.waiters),
                                      waiters |-> Tail(lock.waiters) ]
                         /\ call'[Head(lock.waiters)].pc = "woken"
                         /\ call'[c].out = "raised" => ~Fresh(tcache)'
            /\ (call[c].pc = "woken" /\ ~Fresh(tcache))
                 => /\ ~Fresh(tcache)'
                    /\ call'[c].pc \in { "woken", "fetching" }]_vars
    /\ \A c \in Callers :
         (call[c].pc = "waiting") ~> (call[c].pc \in { "fetching", "done" })

\* A round raised while a caller waited for the lock, and that caller is now
\* in a round of its own with requests sent.
LockReleasedWitness ==
    \E c, w \in Callers :
        /\ call[c].out = "raised"
        /\ call[w].waited
        /\ call[w].pc = "fetching"
        /\ call[w].reqs > 0
        /\ lock.holder = w

\* C29: an error stops the batch.  Once a run has ended in an error (an
\* exception of a step) or in the timeout, wf.run raises inside the loop of
\* run(): nothing is printed for that run, the runs of the later tickers stay
\* unstarted with their Context untouched, nothing more is printed, and what
\* was printed for the earlier tickers stays as it was.
BatchStopsOnError ==
    /\ [](\A r \in BatchRuns :
            phase[r] \in { "error", "timeout" }
                => /\ Len(printed) = r - 1
                   /\ \A i \in 1..(r - 1) :
                        /\ phase[i] = "done"
                        /\ printed[i] = << tickers[i], result[i] >>
                   /\ \A r2 \in BatchRuns :
                        r2 > r => /\ phase[r2] = "new"
                                  /\ ctx[CtxOf(r2)] = << >>
                                  /\ task[r2] = [ fn \in AgentFns |-> NoTask ]
                                  /\ report[tickers[r2]].by # r2)
    /\ [][/\ \/ printed' = printed
             \/ \E r \in BatchRuns :
                  /\ phase[r] = "done"
                  /\ printed' = Append(printed, << tickers[r], result[r] >>)
          /\ \A r \in BatchRuns :
               phase[r] \in { "error", "timeout" }
                   => /\ phase'[r] = phase[r]
                      /\ printed' = printed
                      /\ result' = result]_vars

\* The first run of a batch of two tickers has ended in an error or in the
\* timeout with its tasks started, and the second run has not been started.
BatchStopsWitness ==
    /\ Len(tickers) = 2
    /\ phase[1] \in { "error", "timeout" }
    /\ \E fn \in AgentFns : task[1][fn].pc # "idle"
    /\ phase[2] = "new"
    /\ printed = << >>

\* The values of the calls of append that have returned, in call order.
RECURSIVE AppendedUpTo(_)
AppendedUpTo(a) ==
    IF a = 0 THEN << >>
    ELSE IF app.calls[a].pc = "done"
         THEN Append(AppendedUpTo(a - 1), AppendValue(a))
         ELSE AppendedUpTo(a - 1)

====
